---- MODULE Spec2Model ----
(***************************************************************************)
(* A model of pyconfigatron (src/pyconfigatron/__init__.py): the           *)
(* ConfigStore node heap with its shared ConfigTree lock, the merge        *)
(* (update_dict), and the Configuration directive registry (register_      *)
(* parsed, mixin_config, reapply_config, set_env).                         *)
(*                                                                         *)
(* Python values are tagged records:                                       *)
(*   None            [none |-> TRUE]                                       *)
(*   an int          [leaf |-> n]                                          *)
(*   a str           [str  |-> <<c1, ..., cn>>]  (one-character strings)   *)
(*   a dict          [map  |-> f]   f a function from keys to values       *)
(*   a ConfigStore   [node |-> i]   i an index into the heap `nodes`       *)
(* Dictionary keys are TLA+ strings.                                       *)
(***************************************************************************)
EXTENDS Integers, Sequences, FiniteSets, TLC

VARIABLES
    nodes,       \* heap of ConfigStore objects: _config_tree, _name, _path, _attributes
    trees,       \* heap of ConfigTree objects: locked
    env,         \* Configuration.env
    directives,  \* Configuration.directives
    results,     \* outcome of the register_parsed call that recorded each directive
    last         \* the last call made: operation, receiver, arguments, exception, result

vars == <<nodes, trees, env, directives, results, last>>

----------------------------------------------------------------------------
(* Bounds *)

MaxDirectives == 3      \* register_parsed calls per behaviour
MaxNodes == 4           \* ConfigStore objects ever allocated
RecursionLimit == 2     \* depth at which the interpreter raises RuntimeError
MaxRawCalls == 1        \* register_parsed calls per behaviour of the round trip

----------------------------------------------------------------------------
(* Python values *)

None == [none |-> TRUE]
Leaf(v) == [leaf |-> v]
Str(s) == [str |-> s]
Map(f) == [map |-> f]
NodeRef(i) == [node |-> i]

IsNone(x) == DOMAIN x = {"none"}
IsLeaf(x) == DOMAIN x = {"leaf"}
IsStr(x) == DOMAIN x = {"str"}
IsMap(x) == DOMAIN x = {"map"}
IsNode(x) == DOMAIN x = {"node"}

EmptyDict == <<>>

\* bool(x)
Truthy(x) ==
    IF IsNone(x) THEN FALSE
    ELSE IF IsLeaf(x) THEN x.leaf # 0
    ELSE IF IsStr(x) THEN Len(x.str) > 0
    ELSE IF IsMap(x) THEN DOMAIN x.map # {}
    ELSE TRUE

\* ''.join(cs)
RECURSIVE Join(_)
Join(cs) == IF cs = <<>> THEN "" ELSE Head(cs) \o Join(Tail(cs))

\* s.split('.') for a str given as its characters
RECURSIVE Split(_)
Split(cs) ==
    IF \E i \in 1..Len(cs) : cs[i] = "."
    THEN LET i == CHOOSE j \in 1..Len(cs) :
                      cs[j] = "." /\ \A k \in 1..(j - 1) : cs[k] # "."
         IN <<Join(SubSeq(cs, 1, i - 1))>> \o Split(SubSeq(cs, i + 1, Len(cs)))
    ELSE <<Join(cs)>>

\* key.startswith('_'), for the attribute names the model uses
StartsWithUnderscore(key) == key \in {"_config_tree", "_name", "_path", "_attributes", "_missing"}

\* hasattr(ConfigStore, key): the names defined on the class (and on object)
ClassAttributes ==
    {"locked", "clear", "update_dict", "to_dict", "iteritems", "items",
     "__init__", "__getitem__", "__setitem__", "__getattr__", "__setattr__",
     "__str__", "__repr__", "__iter__", "__class__", "__dict__"}

\* the names ConfigStore.__init__ sets on the instance
InstanceAttributes == {"_config_tree", "_name", "_path", "_attributes"}

----------------------------------------------------------------------------
(* Outcomes of a call: the heaps after it, the exception it raised ("none" *)
(* when it returned) and the value it returned.                            *)

Return(n, t, r) == [nodes |-> n, trees |-> t, exc |-> "none", ret |-> r]
Raise(n, t, e) == [nodes |-> n, trees |-> t, exc |-> e, ret |-> None]

ROOT == 1
TREE == 1

\* ConfigTree.__init__
NewConfigTree == [locked |-> FALSE]

\* ConfigStore.__init__
NewConfigStore(config_tree, name, path) ==
    [_config_tree |-> config_tree, _name |-> name, _path |-> path, _attributes |-> EmptyDict]

\* ConfigStore.locked (property getter)
Locked(n, t, self) == t[n[self]._config_tree].locked

\* ConfigStore.locked (property setter)
SetLocked(n, t, self, value) == [t EXCEPT ![n[self]._config_tree].locked = value]

\* __getitem__ without the test of the lock: a missing key always gets a node
GetItem_Unguarded(n, t, self, key) ==
    IF key \in DOMAIN n[self]._attributes
    THEN Return(n, t, n[self]._attributes[key])
    ELSE LET id == Len(n) + 1
             child == NewConfigStore(n[self]._config_tree,
                                     n[self]._name \o "." \o key,
                                     Append(n[self]._path, key))
             stored == [n EXCEPT ![self]._attributes = (key :> NodeRef(id)) @@ @]
         IN Return(Append(stored, child), t, NodeRef(id))

\* __getitem__ without the lookup: every read of an unlocked tree makes a node
GetItem_AlwaysNew(n, t, self, key) ==
    IF Locked(n, t, self)
    THEN IF key \in DOMAIN n[self]._attributes
         THEN Return(n, t, n[self]._attributes[key])
         ELSE Raise(n, t, "UndefinedKeyError")
    ELSE LET id == Len(n) + 1
             child == NewConfigStore(n[self]._config_tree,
                                     n[self]._name \o "." \o key,
                                     Append(n[self]._path, key))
             stored == [n EXCEPT ![self]._attributes = (key :> NodeRef(id)) @@ @]
         IN Return(Append(stored, child), t, NodeRef(id))

\* __getitem__ giving each node it creates a ConfigTree of its own
GetItem_OwnTree(n, t, self, key) ==
    IF key \in DOMAIN n[self]._attributes
    THEN Return(n, t, n[self]._attributes[key])
    ELSE IF Locked(n, t, self)
    THEN Raise(n, t, "UndefinedKeyError")
    ELSE LET id == Len(n) + 1
             child == NewConfigStore(Len(t) + 1,
                                     n[self]._name \o "." \o key,
                                     Append(n[self]._path, key))
             stored == [n EXCEPT ![self]._attributes = (key :> NodeRef(id)) @@ @]
         IN Return(Append(stored, child), Append(t, NewConfigTree), NodeRef(id))

\* ConfigStore.__getitem__
GetItem(n, t, self, key) ==
    IF key \in DOMAIN n[self]._attributes
    THEN Return(n, t, n[self]._attributes[key])
    ELSE IF Locked(n, t, self)
    THEN Raise(n, t, "UndefinedKeyError")
    ELSE LET id == Len(n) + 1
             child == NewConfigStore(n[self]._config_tree,
                                     n[self]._name \o "." \o key,
                                     Append(n[self]._path, key))
             stored == [n EXCEPT ![self]._attributes = (key :> NodeRef(id)) @@ @]
         IN Return(Append(stored, child), t, NodeRef(id))

\* __setitem__ without the test of the lock
SetItem_Unguarded(n, t, self, key, value) ==
    Return([n EXCEPT ![self]._attributes = (key :> value) @@ @], t, None)

\* ConfigStore.__setitem__
SetItem(n, t, self, key, value) ==
    IF Locked(n, t, self)
    THEN Raise(n, t, "LockedError")
    ELSE Return([n EXCEPT ![self]._attributes = (key :> value) @@ @], t, None)

\* ConfigStore.__getattr__ (called when the normal attribute lookup fails)
GetAttr(n, t, self, key) ==
    IF StartsWithUnderscore(key) \/ key \in ClassAttributes
    THEN Raise(n, t, "AttributeError")
    ELSE GetItem(n, t, self, key)

\* the expression `x.key` for a ConfigStore x
Attribute(n, t, self, key) ==
    IF key \in InstanceAttributes \/ key \in ClassAttributes
    THEN Return(n, t, None)
    ELSE GetAttr(n, t, self, key)

\* ConfigStore.clear: `self.attributes.clear()`. `attributes` is neither an
\* instance nor a class attribute, so the lookup goes through __getattr__ to
\* __getitem__('attributes'); a ConfigStore found or created there has its own
\* clear() called, an int or None has no clear. depth counts the clear()
\* frames already on the stack.
RECURSIVE Clear(_, _, _, _)
Clear(n, t, self, depth) ==
    IF depth >= RecursionLimit
    THEN Raise(n, t, "RuntimeError")
    ELSE LET a == Attribute(n, t, self, "attributes")
         IN IF a.exc # "none" THEN a
            ELSE IF IsNode(a.ret) THEN Clear(a.nodes, a.trees, a.ret.node, depth + 1)
            ELSE Raise(a.nodes, a.trees, "AttributeError")

\* ConfigStore.update_dict. d.iteritems() visits the keys of a dict in an
\* order the program does not control, so the result is the set of outcomes
\* over all orders; the loop stops at the first exception.
RECURSIVE UpdateDict(_, _, _, _), UpdateDictItems(_, _, _, _, _)

\* the loop body with a mapping replacing what the key holds instead of being
\* merged into it
UpdateDictItem_Replace(n, t, self, key, value) ==
    IF IsMap(value)
    THEN LET rest == DOMAIN n[self]._attributes \ {key}
             dropped == [n EXCEPT ![self]._attributes = [k \in rest |-> @[k]]]
             g == GetItem(dropped, t, self, key)
         IN IF g.exc # "none" THEN {g}
            ELSE UpdateDict(g.nodes, g.trees, g.ret.node, value)
    ELSE {SetItem(n, t, self, key, value)}

\* the loop body with a scalar kept when the key already holds one
UpdateDictItem_KeepFirst(n, t, self, key, value) ==
    IF IsMap(value)
    THEN LET g == GetItem(n, t, self, key)
         IN IF g.exc # "none" THEN {g}
            ELSE IF IsNode(g.ret) THEN UpdateDict(g.nodes, g.trees, g.ret.node, value)
            ELSE {Raise(g.nodes, g.trees, "AttributeError")}
    ELSE IF key \in DOMAIN n[self]._attributes /\ ~IsNode(n[self]._attributes[key])
    THEN {Return(n, t, None)}
    ELSE {SetItem(n, t, self, key, value)}

\* the loop body with a child node kept when the value is not a mapping
UpdateDictItem_KeepNode(n, t, self, key, value) ==
    IF IsMap(value)
    THEN LET g == GetItem(n, t, self, key)
         IN IF g.exc # "none" THEN {g}
            ELSE IF IsNode(g.ret) THEN UpdateDict(g.nodes, g.trees, g.ret.node, value)
            ELSE {Raise(g.nodes, g.trees, "AttributeError")}
    ELSE IF key \in DOMAIN n[self]._attributes /\ IsNode(n[self]._attributes[key])
    THEN {Return(n, t, None)}
    ELSE {SetItem(n, t, self, key, value)}

\* the body of the loop of update_dict, for one (key, value)
UpdateDictItem(n, t, self, key, value) ==
    IF IsMap(value)
    THEN LET g == GetItem(n, t, self, key)
         IN IF g.exc # "none" THEN {g}
            ELSE IF IsNode(g.ret) THEN UpdateDict(g.nodes, g.trees, g.ret.node, value)
            ELSE {Raise(g.nodes, g.trees, "AttributeError")}
    ELSE {SetItem(n, t, self, key, value)}

\* the loop of update_dict over the keys not yet visited
UpdateDictItems(n, t, self, m, todo) ==
    IF todo = {}
    THEN {Return(n, t, None)}
    ELSE UNION { UNION { IF o.exc # "none" THEN {o}
                         ELSE UpdateDictItems(o.nodes, o.trees, self, m, todo \ {key})
                         : o \in UpdateDictItem(n, t, self, key, m[key]) }
                 : key \in todo }

UpdateDict(n, t, self, d) ==
    IF ~IsMap(d)
    THEN {Raise(n, t, "AttributeError")}
    ELSE UpdateDictItems(n, t, self, d.map, DOMAIN d.map)

\* to_dict without the conversion of the child nodes
ToDict_Shallow(n, self) == Map(n[self]._attributes)

\* ConfigStore.to_dict
RECURSIVE ToDict(_, _)
ToDict(n, self) ==
    Map([key \in DOMAIN n[self]._attributes |->
            LET value == n[self]._attributes[key]
            IN IF IsNode(value) THEN ToDict(n, value.node) ELSE value])

----------------------------------------------------------------------------
(* Configuration *)

\* f.read().strip() of discover_env, on the characters of the file
RECURSIVE Strip(_)
Strip(cs) ==
    LET Space(c) == c \in {" ", "\n", "\t"}
    IN IF cs = <<>> THEN cs
       ELSE IF Space(Head(cs)) THEN Strip(Tail(cs))
       ELSE IF Space(cs[Len(cs)]) THEN Strip(SubSeq(cs, 1, Len(cs) - 1))
       ELSE cs

\* Configuration.discover_env; env_file is the content of /etc/flags/env, None when absent
DiscoverEnv(env_file) ==
    IF IsNone(env_file) THEN "local" ELSE Join(Strip(env_file.str))

\* the dict register_parsed builds
Directive(config, filepath, raw, optional, nested) ==
    [config |-> config, filepath |-> filepath, raw |-> raw,
     optional |-> optional, nested |-> nested]

\* mixin_config without the environment test
EnvironmentCheck_Skipped(e, directive) == "none"

\* mixin_config, line 169: the exception the environment test raises
EnvironmentCheck(e, directive) ==
    IF ~directive.raw /\ Truthy(directive.filepath) /\ ~IsNone(directive.config)
    THEN IF ~IsMap(directive.config) THEN "TypeError"
         ELSE IF e \notin DOMAIN directive.config.map THEN "MissingEnvironment"
         ELSE "none"
    ELSE "none"

\* mixin_config merging the whole document, as if every directive were raw
Choice_Raw(e, directive) == [exc |-> "none", ret |-> directive.config]

\* mixin_config, lines 172-179: the mapping to merge
Choice(e, directive) ==
    IF directive.raw
    THEN [exc |-> "none", ret |-> directive.config]
    ELSE IF Truthy(directive.filepath) /\ Truthy(directive.config)
    THEN IF ~IsMap(directive.config) THEN [exc |-> "TypeError", ret |-> None]
         ELSE IF e \notin DOMAIN directive.config.map THEN [exc |-> "KeyError", ret |-> None]
         ELSE [exc |-> "none", ret |-> directive.config.map[e]]
    ELSE IF Truthy(directive.filepath)
    THEN [exc |-> "none", ret |-> Map(EmptyDict)]
    ELSE [exc |-> "none", ret |-> directive.config]

\* mixin_config, lines 184-185: the keys of the mount path, directive['nested'].split('.')
MountKeys(directive) ==
    IF IsNone(directive.nested) THEN <<>> ELSE Split(directive.nested.str)

\* mixin_config without the navigation: the mount node is always the root
Navigate_Stay(n, t, base_config, keys) == Return(n, t, base_config)

\* mixin_config, lines 184-186: base_config = base_config[key] for each key
RECURSIVE Navigate(_, _, _, _)
Navigate(n, t, base_config, keys) ==
    IF keys = <<>> THEN Return(n, t, base_config)
    ELSE IF ~IsNode(base_config) THEN Raise(n, t, "TypeError")
    ELSE LET g == GetItem(n, t, base_config.node, Head(keys))
         IN IF g.exc # "none" THEN g
            ELSE Navigate(g.nodes, g.trees, g.ret, Tail(keys))

\* mixin_config, line 187: base_config.update_dict(choice)
Merge(n, t, base_config, choice) ==
    IF ~IsNode(base_config)
    THEN {Raise(n, t, "AttributeError")}
    ELSE UpdateDict(n, t, base_config.node, choice)

\* Configuration.mixin_config
MixinConfig(n, t, e, directive) ==
    IF directive.optional /\ IsNone(directive.config)
    THEN {Return(n, t, None)}
    ELSE IF EnvironmentCheck(e, directive) # "none"
    THEN {Raise(n, t, EnvironmentCheck(e, directive))}
    ELSE IF Choice(e, directive).exc # "none"
    THEN {Raise(n, t, Choice(e, directive).exc)}
    ELSE LET unlocked == SetLocked(n, t, ROOT, FALSE)
             base == Navigate(n, unlocked, NodeRef(ROOT), MountKeys(directive))
         IN IF base.exc # "none" THEN {base}
            ELSE { IF o.exc # "none" THEN o
                   ELSE Return(o.nodes, SetLocked(o.nodes, o.trees, ROOT, TRUE), None)
                   : o \in Merge(base.nodes, base.trees, base.ret, Choice(e, directive).ret) }

\* the loop of reapply_config, from directive i on
RECURSIVE MixinAll(_, _, _, _, _)
MixinAll(n, t, e, ds, i) ==
    IF i > Len(ds)
    THEN {Return(n, t, None)}
    ELSE UNION { IF o.exc # "none" THEN {o} ELSE MixinAll(o.nodes, o.trees, e, ds, i + 1)
                 : o \in MixinConfig(n, t, e, ds[i]) }

\* Configuration.reapply_config
ReapplyConfig(n, t, e, ds) ==
    LET c == Clear(n, t, ROOT, 0)
    IN IF c.exc # "none" THEN {c} ELSE MixinAll(c.nodes, c.trees, e, ds, 1)

----------------------------------------------------------------------------
(* Inputs *)

Envs == {"dev", "prod"}

\* contents of /etc/flags/env: absent, "dev\n", "prod"
EnvFiles == {None, Str(<<"d", "e", "v", "\n">>), Str(<<"p", "r", "o", "d">>)}

\* {dev: {a: {b: 1}}, prod: {a: {b: 2}}}
DocBoth ==
    Map(("dev" :> Map("a" :> Map("b" :> Leaf(1)))) @@
        ("prod" :> Map("a" :> Map("b" :> Leaf(2)))))

\* {dev: {a: {c: 2}, x: 1}}
DocDev == Map("dev" :> Map(("a" :> Map("c" :> Leaf(2))) @@ ("x" :> Leaf(1))))

\* {a: 1}
DocScalar == Map("a" :> Leaf(1))

\* {a: {c: 3}}
DocPlain == Map("a" :> Map("c" :> Leaf(3)))

File == Str(<<"/", "e">>)

Mount == Str(<<"a", ".", "b">>)

\* the register_parsed calls made: a file with both environments, the same
\* mounted at a.b, a file with one environment, an in-memory raw mapping, the
\* same mounted at a.b, an in-memory mapping that is not raw, an optional file
\* that is absent, an empty file, and an empty file registered raw at a.b
Registrations ==
    { Directive(DocBoth, File, FALSE, FALSE, None),
      Directive(DocBoth, File, FALSE, FALSE, Mount),
      Directive(DocDev, File, FALSE, FALSE, None),
      Directive(DocScalar, None, TRUE, FALSE, None),
      Directive(DocScalar, None, TRUE, FALSE, Mount),
      Directive(DocPlain, None, FALSE, FALSE, None),
      Directive(None, File, FALSE, TRUE, None),
      Directive(None, File, FALSE, FALSE, None),
      Directive(None, File, TRUE, FALSE, Mount) }

\* paths given to register: "e" (relative), "/m" (no such file), "/b" (a
\* file that is not YAML); File, "/e", holds the two-environment document
Relative == Str(<<"e">>)
Missing == Str(<<"/", "m">>)
Bad == Str(<<"/", "b">>)

\* os.path.exists(filepath)
Exists(filepath) == filepath \in {File, Bad, Relative}

\* yaml.load(f) for the file at filepath: the document, or a parse error
YamlLoad(filepath) ==
    IF filepath = Bad
    THEN [exc |-> "YAMLError", ret |-> None]
    ELSE [exc |-> "none", ret |-> DocBoth]

\* the register calls made: filepath, raw, optional, nested
Registers ==
    { Directive(None, Relative, raw, optional, nested) :
          raw \in BOOLEAN, optional \in BOOLEAN, nested \in {None, Mount} }
    \cup { Directive(None, File, FALSE, FALSE, None),
           Directive(None, File, FALSE, FALSE, Mount),
           Directive(None, Missing, FALSE, TRUE, None),
           Directive(None, Missing, FALSE, FALSE, None),
           Directive(None, Bad, FALSE, FALSE, None) }

\* the in-memory documents of the round trip: the mappings over RawKeys, two
\* levels deep, empty ones included, with the leaves 1 and None
RawKeys == {"a", "b"}
RawLeaves == {Leaf(1), None}
MapsOver(V) == UNION { [D -> V] : D \in SUBSET RawKeys }
RawMappings ==
    LET inner == { Map(f) : f \in MapsOver(RawLeaves) }
    IN { Map(f) : f \in MapsOver(RawLeaves \cup inner) }

\* keys and values of the reads and writes made on the tree from outside
Keys == {"a"}
Values == {Leaf(2)}
Names == Keys \cup {"_missing", "clear"}

\* the mappings merged by outside calls of update_dict: {a: 1}, {a: {c: 3}}
Mappings == {DocScalar, DocPlain}

----------------------------------------------------------------------------
(* The calls *)

Call(op, o) == [op |-> op, exc |-> o.exc, ret |-> o.ret]

\* Configuration.__init__
Init ==
    /\ nodes = <<NewConfigStore(TREE, "config", <<>>)>>
    /\ trees = SetLocked(nodes, <<NewConfigTree>>, ROOT, TRUE)
    /\ \E env_file \in EnvFiles : env = DiscoverEnv(env_file)
    /\ directives = <<>>
    /\ results = <<>>
    /\ last = [op |-> "init", exc |-> "none", ret |-> None]

\* Configuration.register_parsed
RegisterParsed(config, filepath, raw, optional, nested) ==
    /\ Len(directives) < MaxDirectives
    /\ LET directive == Directive(config, filepath, raw, optional, nested)
       IN \E o \in MixinConfig(nodes, trees, env, directive) :
            /\ nodes' = o.nodes
            /\ trees' = o.trees
            /\ directives' = Append(directives, directive)
            /\ results' = Append(results, o.exc)
            /\ last' = Call("register_parsed", o)
            /\ UNCHANGED env

\* filepath.startswith(prefix), prefix one character
StartsWith(filepath, prefix) == Len(filepath.str) > 0 /\ filepath.str[1] = prefix

\* register with an optional file that is absent treated like any other file
RegisterLoad_NotOptional(filepath, optional) ==
    IF ~StartsWith(filepath, "/")
    THEN [exc |-> "Error", config |-> None, io |-> FALSE]
    ELSE IF ~Exists(filepath)
    THEN [exc |-> "IOError", config |-> None, io |-> TRUE]
    ELSE IF YamlLoad(filepath).exc # "none"
    THEN [exc |-> "NameError", config |-> None, io |-> TRUE]
    ELSE [exc |-> "none", config |-> YamlLoad(filepath).ret, io |-> TRUE]

\* register without the test of the path
RegisterLoad_AnyPath(filepath, optional) ==
    IF optional /\ ~Exists(filepath)
    THEN [exc |-> "none", config |-> None, io |-> TRUE]
    ELSE IF ~Exists(filepath)
    THEN [exc |-> "IOError", config |-> None, io |-> TRUE]
    ELSE IF YamlLoad(filepath).exc # "none"
    THEN [exc |-> "NameError", config |-> None, io |-> TRUE]
    ELSE [exc |-> "none", config |-> YamlLoad(filepath).ret, io |-> TRUE]

\* Configuration.register, lines 130-141: the exception raised or the config
\* loaded, and whether the file system was touched. A parse error is caught
\* by a handler that reads sys.exc_info(); the module does not import sys, so
\* the handler raises NameError.
RegisterLoad(filepath, optional) ==
    IF ~StartsWith(filepath, "/")
    THEN [exc |-> "Error", config |-> None, io |-> FALSE]
    ELSE IF optional /\ ~Exists(filepath)
    THEN [exc |-> "none", config |-> None, io |-> TRUE]
    ELSE IF ~Exists(filepath)
    THEN [exc |-> "IOError", config |-> None, io |-> TRUE]
    ELSE IF YamlLoad(filepath).exc # "none"
    THEN [exc |-> "NameError", config |-> None, io |-> TRUE]
    ELSE [exc |-> "none", config |-> YamlLoad(filepath).ret, io |-> TRUE]

\* Configuration.register
Register(filepath, raw, optional, nested) ==
    LET loaded == RegisterLoad(filepath, optional)
    IN IF loaded.exc # "none"
       THEN /\ last' = [op |-> "register", exc |-> loaded.exc, ret |-> None, io |-> loaded.io]
            /\ UNCHANGED <<nodes, trees, env, directives, results>>
       ELSE /\ Len(directives) < MaxDirectives
            /\ LET directive == Directive(loaded.config, filepath, raw, optional, nested)
               IN \E o \in MixinConfig(nodes, trees, env, directive) :
                    /\ nodes' = o.nodes
                    /\ trees' = o.trees
                    /\ directives' = Append(directives, directive)
                    /\ results' = Append(results, o.exc)
                    /\ last' = [op |-> "register", exc |-> o.exc, ret |-> None, io |-> loaded.io]
                    /\ UNCHANGED env

\* set_env putting the old environment back when the rebuild raises
SetEnv_Restoring(e) ==
    /\ \E o \in ReapplyConfig(nodes, trees, e, directives) :
            /\ env' = IF o.exc = "none" THEN e ELSE env
            /\ nodes' = o.nodes
            /\ trees' = o.trees
            /\ last' = Call("set_env", o)
    /\ UNCHANGED <<directives, results>>

\* Configuration.set_env
SetEnv(e) ==
    /\ env' = e
    /\ \E o \in ReapplyConfig(nodes, trees, e, directives) :
            /\ nodes' = o.nodes
            /\ trees' = o.trees
            /\ last' = Call("set_env", o)
    /\ UNCHANGED <<directives, results>>

\* configatron...[key]
GetItemCall(self, key) ==
    LET o == GetItem(nodes, trees, self, key)
    IN /\ Len(o.nodes) <= MaxNodes
       /\ nodes' = o.nodes
       /\ trees' = o.trees
       /\ last' = Call("getitem", o)
       /\ UNCHANGED <<env, directives, results>>

\* configatron...[key] = value
SetItemCall(self, key, value) ==
    LET o == SetItem(nodes, trees, self, key, value)
    IN /\ nodes' = o.nodes
       /\ trees' = o.trees
       /\ last' = Call("setitem", o)
       /\ UNCHANGED <<env, directives, results>>

\* configatron....key
AttributeCall(self, key) ==
    LET o == Attribute(nodes, trees, self, key)
    IN /\ Len(o.nodes) <= MaxNodes
       /\ nodes' = o.nodes
       /\ trees' = o.trees
       /\ last' = Call("getattr", o)
       /\ UNCHANGED <<env, directives, results>>

\* x.locked = value
LockedCall(self, value) ==
    /\ trees' = SetLocked(nodes, trees, self, value)
    /\ last' = [op |-> "locked", exc |-> "none", ret |-> None]
    /\ UNCHANGED <<nodes, env, directives, results>>

\* x.update_dict(d)
UpdateDictCall(self, d) ==
    \E o \in UpdateDict(nodes, trees, self, d) :
        /\ Len(o.nodes) <= MaxNodes
        /\ nodes' = o.nodes
        /\ trees' = o.trees
        /\ last' = Call("update_dict", o)
        /\ UNCHANGED <<env, directives, results>>

\* x.clear()
ClearCall(self) ==
    LET o == Clear(nodes, trees, self, 0)
    IN /\ Len(o.nodes) <= MaxNodes
       /\ nodes' = o.nodes
       /\ trees' = o.trees
       /\ last' = Call("clear", o)
       /\ UNCHANGED <<env, directives, results>>

----------------------------------------------------------------------------
(* The Configuration: the calls of register, register_parsed and set_env *)

Next ==
    \/ \E r \in Registrations :
            RegisterParsed(r.config, r.filepath, r.raw, r.optional, r.nested)
    \/ \E r \in Registers : Register(r.filepath, r.raw, r.optional, r.nested)
    \/ \E e \in Envs : SetEnv(e)

Spec == Init /\ [][Next]_vars

----------------------------------------------------------------------------
(* A ConfigStore hierarchy of its own, used through the methods of its nodes *)

\* register_parsed(m, raw=True) of the in-memory mappings, on the Configuration
\* as constructed
NextRaw ==
    \E m \in RawMappings :
        /\ Len(directives) < MaxRawCalls
        /\ RegisterParsed(m, None, TRUE, FALSE, None)

RawSpec == Init /\ [][NextRaw]_vars

\* ConfigStore()
InitStore ==
    /\ nodes = <<NewConfigStore(TREE, "config", <<>>)>>
    /\ trees = <<NewConfigTree>>
    /\ env = DiscoverEnv(None)
    /\ directives = <<>>
    /\ results = <<>>
    /\ last = [op |-> "init", exc |-> "none", ret |-> None]

NextStore ==
    \/ \E self \in 1..Len(nodes), key \in Keys : GetItemCall(self, key)
    \/ \E self \in 1..Len(nodes), key \in Keys, value \in Values : SetItemCall(self, key, value)
    \/ \E self \in 1..Len(nodes), key \in Names : AttributeCall(self, key)
    \/ \E self \in 1..Len(nodes), value \in BOOLEAN : LockedCall(self, value)
    \/ \E self \in 1..Len(nodes), d \in Mappings : UpdateDictCall(self, d)
    \/ \E self \in 1..Len(nodes) : ClearCall(self)

StoreSpec == InitStore /\ [][NextStore]_vars

----------------------------------------------------------------------------
(* Properties *)

\* the children of a node
Children(self) == DOMAIN nodes[self]._attributes

\* C1: the tree is locked whenever no register_parsed or set_env call is
\* executing, also after a call that raised.
C1_LockedBetweenCalls == Locked(nodes, trees, ROOT)

\* C2: on a locked tree, reading a key that is not among a node's children,
\* by x[key] or by x.key, raises UndefinedKeyError and leaves both heaps as
\* they were: no node is created.
C2_LockedMissingReadFails ==
    [][\A self \in 1..Len(nodes), key \in Keys :
        ( /\ Locked(nodes, trees, self)
          /\ key \notin Children(self)
          /\ GetItemCall(self, key) \/ AttributeCall(self, key) )
        => /\ last'.exc = "UndefinedKeyError"
           /\ nodes' = nodes
           /\ trees' = trees]_vars

\* a read of a missing key has just failed on a locked tree that has children
C2_Witness ==
    /\ last.op \in {"getitem", "getattr"}
    /\ last.exc = "UndefinedKeyError"
    /\ Locked(nodes, trees, ROOT)
    /\ Children(ROOT) # {}
    /\ \E self \in 1..Len(nodes) : Children(self) = {}

\* C3: on a locked tree, x[key] = value raises LockedError for every key,
\* present or absent, and leaves both heaps as they were.
C3_LockedWriteFails ==
    [][\A self \in 1..Len(nodes), key \in Keys, value \in Values :
        (Locked(nodes, trees, self) /\ SetItemCall(self, key, value))
        => /\ last'.exc = "LockedError"
           /\ nodes' = nodes
           /\ trees' = trees]_vars

\* a write has just failed on a locked tree in which the key is present in
\* one node and absent from another
C3_Witness ==
    /\ last.op = "setitem"
    /\ last.exc = "LockedError"
    /\ Locked(nodes, trees, ROOT)
    /\ \E self \in 1..Len(nodes) : "a" \in Children(self)
    /\ \E self \in 1..Len(nodes) : "a" \notin Children(self)

\* C4: on an unlocked tree, reading a missing key makes one new empty node
\* with the reader's ConfigTree, stores it under the key, returns it and changes
\* nothing else; reading a key that holds a node returns that very node and
\* changes neither heap.
C4_UnlockedReadIdempotent ==
    [][\A self \in 1..Len(nodes), key \in Keys :
        (~Locked(nodes, trees, self) /\ GetItemCall(self, key))
        => /\ last'.exc = "none"
           /\ trees' = trees
           /\ IF key \in Children(self)
              THEN /\ last'.ret = nodes[self]._attributes[key]
                   /\ nodes' = nodes
              ELSE /\ last'.ret = NodeRef(Len(nodes) + 1)
                   /\ Len(nodes') = Len(nodes) + 1
                   /\ nodes'[Len(nodes') ]._attributes = EmptyDict
                   /\ nodes'[Len(nodes')]._config_tree = nodes[self]._config_tree
                   /\ nodes'[self]._attributes = (key :> last'.ret) @@ nodes[self]._attributes
                   /\ \A other \in 1..Len(nodes) : other # self => nodes'[other] = nodes[other]]_vars

\* a read of an unlocked tree has just returned a node that is stored, empty,
\* in the tree
C4_Witness ==
    /\ last.op = "getitem"
    /\ last.exc = "none"
    /\ ~Locked(nodes, trees, ROOT)
    /\ IsNode(last.ret)
    /\ \E self \in 1..Len(nodes) :
         /\ "a" \in Children(self)
         /\ nodes[self]._attributes["a"] = last.ret
         /\ nodes[last.ret.node]._attributes = EmptyDict

----------------------------------------------------------------------------
(* Properties of the Configuration *)

\* configatron.to_dict()
Contents == ToDict(nodes, ROOT)

\* the heaps of a Configuration just constructed
FreshNodes == <<NewConfigStore(TREE, "config", <<>>)>>
FreshTrees == SetLocked(FreshNodes, <<NewConfigTree>>, ROOT, TRUE)

\* the heaps after register_parsed has been called with each of ds[i..] in
\* turn under environment e, whatever each call raised
RECURSIVE RegisterAll(_, _, _, _, _)
RegisterAll(n, t, e, ds, i) ==
    IF i > Len(ds)
    THEN {[nodes |-> n, trees |-> t]}
    ELSE UNION { RegisterAll(o.nodes, o.trees, e, ds, i + 1)
                 : o \in MixinConfig(n, t, e, ds[i]) }

\* the node reached from self through keys
RECURSIVE Walk(_, _, _)
Walk(n, self, keys) ==
    IF keys = <<>> THEN self
    ELSE Walk(n, n[self]._attributes[Head(keys)].node, Tail(keys))

\* the mapping that holds v at the path keys and nothing else
RECURSIVE Wrap(_, _)
Wrap(keys, v) == IF keys = <<>> THEN v ELSE Map(Head(keys) :> Wrap(Tail(keys), v))

\* the leaves of a nested mapping, each with its path
RECURSIVE Leaves(_, _)
Leaves(v, prefix) ==
    IF IsMap(v)
    THEN UNION { Leaves(v.map[k], Append(prefix, k)) : k \in DOMAIN v.map }
    ELSE {<<prefix, v>>}

IsPrefix(p, q) == Len(p) <= Len(q) /\ SubSeq(q, 1, Len(p)) = p

\* mapping m gives a leaf at path p or above it
Overwrites(m, p) == \E l \in Leaves(m, <<>>) : IsPrefix(l[1], p)

Registered(r) == RegisterParsed(r.config, r.filepath, r.raw, r.optional, r.nested)

\* C5: after successful registrations, set_env(e) returns and leaves the tree
\* that a Configuration started under e holds after the same register_parsed
\* calls in the same order.
C5_SetEnvRebuilds ==
    ( /\ last.op = "set_env"
      /\ directives # <<>>
      /\ \A i \in 1..Len(results) : results[i] = "none" )
    => /\ last.exc = "none"
       /\ \E f \in RegisterAll(FreshNodes, FreshTrees, env, directives, 1) :
             ToDict(f.nodes, ROOT) = Contents

\* C6: registering, on an empty tree, a file-sourced directive that is not
\* raw and whose document maps the active environment to a mapping returns and
\* leaves exactly document[env] at the mount point and nothing beside it.
C6_EnvironmentSelected ==
    [][\A r \in Registrations :
        ( /\ Contents = Map(EmptyDict)
          /\ ~r.raw /\ Truthy(r.filepath) /\ IsMap(r.config)
          /\ env \in DOMAIN r.config.map
          /\ IsMap(r.config.map[env])
          /\ Registered(r) )
        => /\ last'.exc = "none"
           /\ ToDict(nodes', Walk(nodes', ROOT, MountKeys(r))) = r.config.map[env]
           /\ ToDict(nodes', ROOT) = Wrap(MountKeys(r), r.config.map[env])]_vars

\* the two-environment file, mounted at a.b, has just been registered first
\* under prod and the tree holds its prod mapping there
C6_Witness ==
    /\ last.op = "register_parsed"
    /\ last.exc = "none"
    /\ env = "prod"
    /\ directives = <<Directive(DocBoth, File, FALSE, FALSE, Mount)>>
    /\ Contents = Map("a" :> Map("b" :> Map("a" :> Map("b" :> Leaf(2)))))

\* C7: when a directive has just been merged and a second one is merged at
\* the same mount point, and both mappings have a mapping under key k, then
\* the subtree at k holds every leaf of the second mapping and every leaf of
\* the first that the second does not overwrite; it is the subtree as it was,
\* less the overwritten leaves, plus the leaves of the second.
C7_MergeAdditive ==
    [][\A r \in Registrations :
        ( /\ last.op = "register_parsed" /\ last.exc = "none"
          /\ Registered(r) /\ last'.exc = "none"
          /\ directives[Len(directives)].nested = r.nested )
        => LET m1 == Choice(env, directives[Len(directives)]).ret
               m2 == Choice(env, r).ret
               before == ToDict(nodes, Walk(nodes, ROOT, MountKeys(r)))
               after == ToDict(nodes', Walk(nodes', ROOT, MountKeys(r)))
           IN (IsMap(m1) /\ IsMap(m2)) =>
                \A k \in DOMAIN m1.map \cap DOMAIN m2.map :
                    (IsMap(m1.map[k]) /\ IsMap(m2.map[k])) =>
                        /\ IsMap(after.map[k])
                        /\ Leaves(m2.map[k], <<>>) \subseteq Leaves(after.map[k], <<>>)
                        /\ \A l \in Leaves(m1.map[k], <<>>) :
                              ~Overwrites(m2.map[k], l[1]) => l \in Leaves(after.map[k], <<>>)
                        /\ Leaves(after.map[k], <<>>) =
                              { l \in Leaves(before.map[k], <<>>) : ~Overwrites(m2.map[k], l[1]) }
                              \cup Leaves(m2.map[k], <<>>)]_vars

\* {a: {b: 1}} then {a: {c: 2}, x: 1} have been merged at the root
C7_Witness ==
    /\ last.op = "register_parsed"
    /\ last.exc = "none"
    /\ env = "dev"
    /\ directives = << Directive(DocBoth, File, FALSE, FALSE, None),
                       Directive(DocDev, File, FALSE, FALSE, None) >>
    /\ Contents = Map(("a" :> Map(("b" :> Leaf(1)) @@ ("c" :> Leaf(2)))) @@ ("x" :> Leaf(1)))

C9_AllOrNothing ==
    [][\A r \in Registrations :
        Registered(r) =>
            IF last'.exc = "none"
            THEN (r.optional /\ IsNone(r.config))
                 \/ Leaves(Choice(env, r).ret, <<>>) \subseteq
                       Leaves(ToDict(nodes', Walk(nodes', ROOT, MountKeys(r))), <<>>)
            ELSE ToDict(nodes', ROOT) = ToDict(nodes, ROOT)]_vars

\* C10: in every state the contents of the tree are those obtained from an
\* empty tree by applying every recorded directive, in order, under the
\* current environment.
C10_TreeDerivable ==
    \E f \in RegisterAll(FreshNodes, FreshTrees, env, directives, 1) :
        ToDict(f.nodes, ROOT) = Contents

Registering(c) == Register(c.filepath, c.raw, c.optional, c.nested)

\* C11: register with a path that does not start with "/" raises Error
\* without touching the file system, whatever raw, optional and nested are:
\* no directive is recorded and the tree, its lock included, and the
\* environment stay as they were.
C11_RelativePathRejected ==
    [][\A c \in Registers :
        (~StartsWith(c.filepath, "/") /\ Registering(c))
        => /\ last'.exc = "Error"
           /\ ~last'.io
           /\ directives' = directives
           /\ nodes' = nodes
           /\ trees' = trees
           /\ env' = env]_vars

\* register has just raised Error on a Configuration that holds a directive
\* and its mapping
C11_Witness ==
    /\ last.op = "register"
    /\ last.exc = "Error"
    /\ directives # <<>>
    /\ Contents # Map(EmptyDict)

\* C12: register(path, optional=True) with an absolute path at which no file
\* exists returns, leaves the tree and its lock as they were, and appends one
\* directive whose document is None.
C12_OptionalMissingNoOp ==
    [][\A c \in Registers :
        ( /\ StartsWith(c.filepath, "/")
          /\ c.optional
          /\ ~Exists(c.filepath)
          /\ Registering(c) )
        => /\ last'.exc = "none"
           /\ nodes' = nodes
           /\ trees' = trees
           /\ directives' =
                 Append(directives, Directive(None, c.filepath, c.raw, TRUE, c.nested))]_vars

\* register of the optional absent file has just returned on a locked tree
\* that holds an earlier directive's mapping
C12_Witness ==
    /\ last.op = "register"
    /\ last.exc = "none"
    /\ Len(directives) > 1
    /\ directives[Len(directives)] = Directive(None, Missing, FALSE, TRUE, None)
    /\ Contents # Map(EmptyDict)
    /\ Locked(nodes, trees, ROOT)

\* C13: when a nested mapping m has been registered as a raw in-memory
\* document at the root of an empty tree, under any environment, the call has
\* returned and
\* to_dict() of the root equals m.
C13_RoundTrip ==
    ( /\ Len(directives) = 1
      /\ directives[1].raw
      /\ IsNone(directives[1].filepath)
      /\ IsNone(directives[1].nested)
      /\ IsMap(directives[1].config) )
    => /\ results[1] = "none"
       /\ ToDict(nodes, ROOT) = directives[1].config

\* {a: {a: 1, b: None}, b: {}} has been registered under prod
C13_Witness ==
    /\ env = "prod"
    /\ Len(directives) = 1
    /\ directives[1].raw
    /\ directives[1].config =
          Map(("a" :> Map(("a" :> Leaf(1)) @@ ("b" :> None))) @@ ("b" :> Map(EmptyDict)))
    /\ ToDict(nodes, ROOT) = directives[1].config

\* C14: every node of the hierarchy reports the locked value the root
\* reports, and a write to locked through any node is what every node reports
\* after it.
C14_OneLock ==
    /\ [](\A self \in 1..Len(nodes) :
             Locked(nodes, trees, self) = Locked(nodes, trees, ROOT))
    /\ [][\A self \in 1..Len(nodes), value \in BOOLEAN :
             LockedCall(self, value)
             => \A other \in 1..Len(nodes') : Locked(nodes', trees', other) = value]_vars

\* the hierarchy has three nodes below the root, was unlocked while they were
\* made, and a write to locked has just locked it
C14_Witness ==
    /\ last.op = "locked"
    /\ Len(nodes) >= 4
    /\ \A self \in 1..Len(nodes) : Locked(nodes, trees, self)

\* C15: clear(), called on any node, returns and leaves that node without
\* children.
C15_ClearEmpties ==
    [][\A self \in 1..Len(nodes) :
        ClearCall(self)
        => /\ last'.exc = "none"
           /\ nodes'[self]._attributes = EmptyDict]_vars

\* the leaves a directive gives under environment e, each with its path from
\* the root
EffectiveLeaves(e, directive) ==
    IF directive.optional /\ IsNone(directive.config)
    THEN {}
    ELSE Leaves(Wrap(MountKeys(directive), Choice(e, directive).ret), <<>>)

\* C16: register_parsed records its directive after those recorded before,
\* and when it returns right after another register_parsed call that returned,
\* every leaf path that both directives give a scalar holds the value of the
\* later one and not that of the earlier one, whichever of the two came first.
C16_LaterWins ==
    [][\A r \in Registrations :
        ( /\ last.op = "register_parsed" /\ last.exc = "none"
          /\ last'.op = "register_parsed" /\ last'.exc = "none"
          /\ Registered(r) )
        => /\ directives' = Append(directives, Directive(r.config, r.filepath, r.raw, r.optional, r.nested))
           /\ \A x \in EffectiveLeaves(env, directives[Len(directives)]) :
                 \A y \in EffectiveLeaves(env, r) :
                     x[1] = y[1] =>
                        /\ y \in Leaves(ToDict(nodes', ROOT), <<>>)
                        /\ x[2] # y[2] => x \notin Leaves(ToDict(nodes', ROOT), <<>>)]_vars

\* under dev, {dev: {a: {c: 2}, x: 1}} then {a: {c: 3}} have been registered
\* and a.c is 3
C16_Witness ==
    /\ last.op = "register_parsed"
    /\ last.exc = "none"
    /\ env = "dev"
    /\ directives = << Directive(DocDev, File, FALSE, FALSE, None),
                       Directive(DocPlain, None, FALSE, FALSE, None) >>
    /\ <<(<<"a", "c">>), Leaf(3)>> \in Leaves(Contents, <<>>)
    /\ <<(<<"a", "c">>), Leaf(2)>> \notin Leaves(Contents, <<>>)

\* keys leads from self through child nodes only
RECURSIVE HasPath(_, _, _)
HasPath(n, self, keys) ==
    \/ keys = <<>>
    \/ /\ Head(keys) \in DOMAIN n[self]._attributes
       /\ IsNode(n[self]._attributes[Head(keys)])
       /\ HasPath(n, n[self]._attributes[Head(keys)].node, Tail(keys))

\* the mappings before and after hold the same keys with the same values,
\* except along the path keys and below its end
RECURSIVE OffPathSame(_, _, _)
OffPathSame(before, after, keys) ==
    \/ keys = <<>>
    \/ /\ IsMap(after)
       /\ DOMAIN after.map = DOMAIN before.map \cup {Head(keys)}
       /\ \A k \in DOMAIN before.map \ {Head(keys)} : after.map[k] = before.map[k]
       /\ OffPathSame(IF Head(keys) \in DOMAIN before.map
                      THEN before.map[Head(keys)]
                      ELSE Map(EmptyDict),
                      after.map[Head(keys)], Tail(keys))

\* C17: after a register_parsed call that returned, the mount path of the
\* directive leads through nodes to a node that holds every leaf of the
\* effective mapping (the root when there is no mount path), and every key
\* that is not on the mount path or below it holds what it held before.
C17_MountFrame ==
    [][\A r \in Registrations :
        ( /\ last'.op = "register_parsed" /\ last'.exc = "none"
          /\ ~(r.optional /\ IsNone(r.config))
          /\ Registered(r) )
        => LET keys == IF IsNone(r.nested) THEN <<>> ELSE Split(r.nested.str)
           IN /\ HasPath(nodes', ROOT, keys)
              /\ Leaves(Choice(env, r).ret, <<>>) \subseteq
                    Leaves(ToDict(nodes', Walk(nodes', ROOT, keys)), <<>>)
              /\ OffPathSame(ToDict(nodes, ROOT), ToDict(nodes', ROOT), keys)]_vars

\* {a: 1} has been mounted at a.b in a tree that held a.c and x, and holds
\* them still
C17_Witness ==
    /\ last.op = "register_parsed"
    /\ last.exc = "none"
    /\ directives[Len(directives)] = Directive(DocScalar, None, TRUE, FALSE, Mount)
    /\ Contents = Map(("a" :> Map(("b" :> Map("a" :> Leaf(1))) @@ ("c" :> Leaf(2))))
                      @@ ("x" :> Leaf(1)))

\* C18: every register_parsed call, whatever its outcome, extends the
\* directive list by its directive and nothing else; and once a call has
\* failed, each later set_env(e) ends as the application of every recorded
\* directive, in order, to the emptied tree under e ends.
C18_RecordedAndReapplied ==
    /\ [][\A r \in Registrations :
             Registered(r) =>
                directives' = Append(directives,
                    Directive(r.config, r.filepath, r.raw, r.optional, r.nested))]_vars
    /\ [][\A e \in Envs :
             ( /\ \E i \in 1..Len(results) : results[i] # "none"
               /\ SetEnv(e) )
             => \E o \in MixinAll([nodes EXCEPT ![ROOT]._attributes = EmptyDict],
                                  trees, e, directives, 1) :
                   /\ last'.exc = o.exc
                   /\ ToDict(nodes', ROOT) = ToDict(o.nodes, ROOT)]_vars

\* C19: a set_env(e) call, whether it returns or raises, leaves env = e and
\* the directive list as it was.
C19_SetEnvFrame ==
    [][\A e \in Envs :
        SetEnv(e) => /\ env' = e
                     /\ directives' = directives]_vars

\* set_env("prod") has just raised on a Configuration whose one directive was
\* registered under dev, and the environment is prod
C19_Witness ==
    /\ last.op = "set_env"
    /\ last.exc # "none"
    /\ env = "prod"
    /\ directives = <<Directive(DocDev, File, FALSE, FALSE, None)>>
    /\ results = <<"none">>

\* C20: after an update_dict call that returned, a key that held a child node
\* and is given a value that is not a mapping holds that value, and to_dict
\* shows it there; a key that held a child node and is given a mapping holds
\* the same node, with the leaves of the mapping and its former leaves that
\* the mapping does not overwrite.
C20_ScalarReplacesNode ==
    [][\A self \in 1..Len(nodes), d \in Mappings :
        (last'.op = "update_dict" /\ last'.exc = "none" /\ UpdateDictCall(self, d))
        => \A key \in DOMAIN d.map \cap Children(self) :
              LET held == nodes[self]._attributes[key]
                  value == d.map[key]
              IN IsNode(held) =>
                    IF IsMap(value)
                    THEN /\ nodes'[self]._attributes[key] = held
                         /\ Leaves(value, <<>>) \subseteq Leaves(ToDict(nodes', held.node), <<>>)
                         /\ \A l \in Leaves(ToDict(nodes, held.node), <<>>) :
                               ~Overwrites(value, l[1])
                               => l \in Leaves(ToDict(nodes', held.node), <<>>)
                    ELSE /\ nodes'[self]._attributes[key] = value
                         /\ ToDict(nodes', self).map[key] = value]_vars

\* update_dict({a: 1}) has just returned on a root whose key a held a node
\* with a child node: the root now maps a to 1 and nothing else
C20_Witness ==
    /\ last.op = "update_dict"
    /\ last.exc = "none"
    /\ Len(nodes) >= 3
    /\ nodes[2]._attributes # EmptyDict
    /\ Contents = Map("a" :> Leaf(1))

====
